---- MODULE Spec2Model ----
(***************************************************************************)
(* A model of lazyApply's submission orchestrator: the rate limiter        *)
(* (utils/rateLimiter.ts), the JobApplicator service                       *)
(* (services/jobApplicator.ts) and the HTTP routes that drive it           *)
(* (api/routes.ts).                                                        *)
(*                                                                         *)
(* JavaScript runs every handler to its next await that waits for I/O or   *)
(* a timer, so an action is one such run-to-completion segment; requests   *)
(* of the control surface may arrive between any two segments.             *)
(***************************************************************************)
EXTENDS Integers, Sequences, FiniteSets, TLC

VARIABLES
    now,          \* Date.now()
    env,          \* the process environment read by config/index.ts
    usage,        \* RateLimiter.usage
    queue,        \* JobApplicator.queue
    isProcessing, \* JobApplicator.isProcessing
    isPaused,     \* JobApplicator.isPaused
    currentJob,   \* JobApplicator.currentJob
    activePage,   \* JobApplicator.activePage (0: null)
    openPages,    \* the pages of the browser that are not closed
    loginState,   \* JobApplicator.loginState
    browser,      \* JobApplicator.browser is not null
    context,      \* JobApplicator.context is not null
    jobStatus,    \* jobStore: job.status
    jobPlatform,  \* jobStore: job.platform
    requiredInputs, \* jobStore: job.requiredInputs (<<>>: undefined)
    att,          \* the activations of applyToJob / continueAfterLogin
    loop,         \* the activation of processQueue
    cancel,       \* the activation of close() for POST /automation/cancel
    last,         \* the latest result an attempt returned to its caller
    ops,          \* control-surface requests received so far
    faults        \* awaited calls that have thrown so far

vars == <<now, env, usage, queue, isProcessing, isPaused, currentJob,
          activePage, openPages, loginState, browser, context, jobStatus,
          jobPlatform, requiredInputs, att, loop, cancel, last, ops, faults>>

-----------------------------------------------------------------------------
(* Bounds of the model.                                                    *)

\* Time advances at most this many times in one behaviour.
MaxTicks == 2
\* recordApplication is driven at most this many times per window by RateSpec.
MaxRecorded == 11
\* Control-surface requests in one behaviour.
MaxOps == 2
\* Awaited calls (launch, navigation, handler, screenshot, close) that throw in
\* one behaviour.
MaxFaults == 2
\* Requests, throwing calls and clock steps together in one behaviour.
MaxEvents == 3
\* Time advances at most this many times in one behaviour of RateSpec.
MaxRateTicks == 3

-----------------------------------------------------------------------------
(* Program constants.                                                      *)

HourMs == 3600000
DayMs == 86400000
LinkedinHourlyLimit == 10
DefaultHourlyLimit == 20
LinkedinDelayMax == 480000
DefaultDelayMax == 240000
DefaultDelayMin == 120000
DefaultDailyLimit == 100
ExtraDelayMs == 30000
MaxRetries == 2

\* Date.now() when the process starts; lastApplicationTime starts at 0, long before.
StartTime == 1000000000

Platforms == {"linkedin", "workable", "company_website"}
\* The jobs that requests name, and the jobs the store holds.
Jobs == {"j1", "j2"}
StoredJobs == Jobs \cup {"j3", "j4"}
NoJob == "none"

\* The values the operator may give DEFAULT_DELAY_MIN / LINKEDIN_DELAY_MIN and
\* DEFAULT_DAILY_LIMIT / LINKEDIN_DAILY_LIMIT (both variables set alike).
DelayMinChoices == {0, DefaultDelayMin}
DailyLimitChoices == {1, DefaultDailyLimit}
EnvChoices == [delayMin : {DefaultDelayMin}, dailyLimit : DailyLimitChoices]

\* The steps by which the clock is observed to advance.
TickSteps == {HourMs}
RateTickSteps == {DefaultDelayMin, HourMs, DayMs}

TickCount(t) ==
    LET e == t - StartTime
    IN  (e \div DayMs) + ((e % DayMs) \div HourMs) + ((e % HourMs) \div DefaultDelayMin)

-----------------------------------------------------------------------------
(* config/index.ts                                                         *)

getRateLimitConfig(p) ==
    IF p = "linkedin"
    THEN [delayMin |-> env.delayMin, delayMax |-> LinkedinDelayMax,
          hourlyLimit |-> LinkedinHourlyLimit, dailyLimit |-> env.dailyLimit]
    ELSE [delayMin |-> env.delayMin, delayMax |-> DefaultDelayMax,
          hourlyLimit |-> DefaultHourlyLimit, dailyLimit |-> env.dailyLimit]

-----------------------------------------------------------------------------
(* utils/rateLimiter.ts: the operators take and return the usage map.      *)

NoUsage ==
    [has |-> FALSE, hourlyCount |-> 0, dailyCount |-> 0, lastApplicationTime |-> 0,
     hourlyResetTime |-> 0, dailyResetTime |-> 0]

getUsage(u, p, t) ==
    IF u[p].has
    THEN u
    ELSE [u EXCEPT ![p] = [has |-> TRUE, hourlyCount |-> 0, dailyCount |-> 0,
                           lastApplicationTime |-> 0,
                           hourlyResetTime |-> t + HourMs,
                           dailyResetTime |-> t + DayMs]]

\* checkAndResetLimits resetting only after the window's end (> for >=).
checkAndResetLimitsLate(u, p, t) ==
    LET hourly(u1) ==
            IF t > u1[p].hourlyResetTime
            THEN [u1 EXCEPT ![p].hourlyCount = 0, ![p].hourlyResetTime = t + HourMs]
            ELSE u1
        daily(u2) ==
            IF t > u2[p].dailyResetTime
            THEN [u2 EXCEPT ![p].dailyCount = 0, ![p].dailyResetTime = t + DayMs]
            ELSE u2
    IN  daily(hourly(getUsage(u, p, t)))

checkAndResetLimits(u, p, t) ==
    LET hourly(u1) ==
            IF t >= u1[p].hourlyResetTime
            THEN [u1 EXCEPT ![p].hourlyCount = 0, ![p].hourlyResetTime = t + HourMs]
            ELSE u1
        daily(u2) ==
            IF t >= u2[p].dailyResetTime
            THEN [u2 EXCEPT ![p].dailyCount = 0, ![p].dailyResetTime = t + DayMs]
            ELSE u2
    IN  daily(hourly(getUsage(u, p, t)))

\* canApply testing the hourly cap before the daily cap.
canApplyHourlyFirst(u, p, t) ==
    LET config == getRateLimitConfig(p)
        check(u1) ==
            LET us == u1[p]
                timeSinceLastApp == t - us.lastApplicationTime
            IN  IF us.hourlyCount >= config.hourlyLimit
                THEN [usage |-> u1, allowed |-> FALSE,
                      waitTime |-> us.hourlyResetTime - t, reason |-> "hourly"]
                ELSE IF us.dailyCount >= config.dailyLimit
                THEN [usage |-> u1, allowed |-> FALSE,
                      waitTime |-> us.dailyResetTime - t, reason |-> "daily"]
                ELSE IF timeSinceLastApp < config.delayMin
                THEN [usage |-> u1, allowed |-> FALSE,
                      waitTime |-> config.delayMin - timeSinceLastApp,
                      reason |-> "delay"]
                ELSE [usage |-> u1, allowed |-> TRUE, waitTime |-> 0, reason |-> "none"]
    IN  check(checkAndResetLimits(u, p, t))

\* canApply answering a cap denial with the wait of the minimum spacing.
canApplyWaitsSpacing(u, p, t) ==
    LET config == getRateLimitConfig(p)
        check(u1) ==
            LET us == u1[p]
                timeSinceLastApp == t - us.lastApplicationTime
            IN  IF us.dailyCount >= config.dailyLimit
                THEN [usage |-> u1, allowed |-> FALSE,
                      waitTime |-> config.delayMin - timeSinceLastApp,
                      reason |-> "daily"]
                ELSE IF us.hourlyCount >= config.hourlyLimit
                THEN [usage |-> u1, allowed |-> FALSE,
                      waitTime |-> config.delayMin - timeSinceLastApp,
                      reason |-> "hourly"]
                ELSE IF timeSinceLastApp < config.delayMin
                THEN [usage |-> u1, allowed |-> FALSE,
                      waitTime |-> config.delayMin - timeSinceLastApp,
                      reason |-> "delay"]
                ELSE [usage |-> u1, allowed |-> TRUE, waitTime |-> 0, reason |-> "none"]
    IN  check(checkAndResetLimits(u, p, t))

canApply(u, p, t) ==
    LET config == getRateLimitConfig(p)
        check(u1) ==
            LET us == u1[p]
                timeSinceLastApp == t - us.lastApplicationTime
            IN  IF us.dailyCount >= config.dailyLimit
                THEN [usage |-> u1, allowed |-> FALSE,
                      waitTime |-> us.dailyResetTime - t, reason |-> "daily"]
                ELSE IF us.hourlyCount >= config.hourlyLimit
                THEN [usage |-> u1, allowed |-> FALSE,
                      waitTime |-> us.hourlyResetTime - t, reason |-> "hourly"]
                ELSE IF timeSinceLastApp < config.delayMin
                THEN [usage |-> u1, allowed |-> FALSE,
                      waitTime |-> config.delayMin - timeSinceLastApp,
                      reason |-> "delay"]
                ELSE [usage |-> u1, allowed |-> TRUE, waitTime |-> 0, reason |-> "none"]
    IN  check(checkAndResetLimits(u, p, t))

recordApplication(u, p, t) ==
    LET u1 == checkAndResetLimits(u, p, t)
    IN  [u1 EXCEPT ![p].hourlyCount = @ + 1, ![p].dailyCount = @ + 1,
                   ![p].lastApplicationTime = t]

\* The least and the greatest value of floor(random * (max - min + 1)) + min.
getRandomDelay(p) ==
    {getRateLimitConfig(p).delayMin, getRateLimitConfig(p).delayMax}

-----------------------------------------------------------------------------
(* The program state as one record, so that a handler is the composition   *)
(* of the calls it makes.                                                  *)

Callers == {"loop", "direct", "resume"}
NumPages == 4
PageIds == 1..NumPages

Cur ==
    [usage |-> usage, queue |-> queue,
     isProcessing |-> isProcessing, isPaused |-> isPaused,
     currentJob |-> currentJob, activePage |-> activePage,
     openPages |-> openPages, loginState |-> loginState, browser |-> browser,
     context |-> context, jobStatus |-> jobStatus, jobPlatform |-> jobPlatform,
     requiredInputs |-> requiredInputs, att |-> att, loop |-> loop,
     cancel |-> cancel, last |-> last]

Commit(s) ==
    /\ usage' = s.usage
    /\ queue' = s.queue
    /\ isProcessing' = s.isProcessing
    /\ isPaused' = s.isPaused
    /\ currentJob' = s.currentJob
    /\ activePage' = s.activePage
    /\ openPages' = s.openPages
    /\ loginState' = s.loginState
    /\ browser' = s.browser
    /\ context' = s.context
    /\ jobStatus' = s.jobStatus
    /\ jobPlatform' = s.jobPlatform
    /\ requiredInputs' = s.requiredInputs
    /\ att' = s.att
    /\ loop' = s.loop
    /\ cancel' = s.cancel
    /\ last' = s.last

NoLogin == [required |-> FALSE, platform |-> "null", loginUrl |-> "null", jobId |-> NoJob]

\* res, inputs: the status and the requiredInputs of the result the platform
\* routine has returned.
\* asked: the platform this activation's applyToJob passed to canApply.
IdleAtt ==
    [pc |-> "idle", job |-> NoJob, page |-> 0, res |-> "none", inputs |-> <<>>,
     asked |-> "none"]
\* done: the cancel route has finished and no request that submits a job
\* (apply-batch, retry, apply) has come since.
IdleCancel == [pc |-> "idle", page |-> 0, done |-> FALSE]
IdleLoop == [pc |-> "idle", job |-> NoJob, retryCount |-> 0, wakeAt |-> 0]

\* ApplicationResult: status and error ("Bot detection ..." is the one text
\* String.includes('Bot detection') finds).
Result(status, error) == [status |-> status, error |-> error, requiredInputs |-> <<>>]
NoResult == Result("none", "none")
\* An exception that leaves applyToJob (thrown inside its catch block).
Escaped == Result("exception", "thrown")

\* No attempt has returned yet.
NoLast ==
    [n |-> 0, caller |-> "none", job |-> NoJob, retryCount |-> 0,
     status |-> "none", error |-> "none", requiredInputs |-> <<>>]

\* A segment either stops at an await or returns to its caller. The result
\* that activation c returns for job j is noted in last, with the retryCount
\* of the queue item when the caller is the loop.
Pending(s) == [st |-> s, done |-> FALSE, result |-> NoResult]
Returned(s, c, j, r) ==
    [st |-> [s EXCEPT !.last = [n |-> @.n + 1, caller |-> c, job |-> j,
                                retryCount |-> IF c = "loop" THEN s.loop.retryCount
                                               ELSE 0,
                                status |-> r.status, error |-> r.error,
                                requiredInputs |-> r.requiredInputs]],
     done |-> TRUE, result |-> r]

\* utils/platformDetector.ts on the job's URL: j1, j3 and j4 are
\* https://apply.workable.com/..., j2 is https://jobs.workable.com/... (which
\* services/braveSearch.ts files under company_website).
detectPlatformFromUrl(j) == "workable"
InitialPlatform(j) == IF j = "j2" THEN "company_website" ELSE "workable"

isClosed(s, p) == p \notin s.openPages

\* A page object no variable holds and the browser does not show.
FreshPage(s) ==
    LET used == s.openPages \cup {s.activePage} \cup {s.att[c].page : c \in Callers}
    IN  CHOOSE p \in PageIds : p \notin used /\ \A q \in PageIds : q \notin used => p <= q

HasFreshPage(s) ==
    \E p \in PageIds :
        p \notin s.openPages \cup {s.activePage} \cup {s.att[c].page : c \in Callers}

-----------------------------------------------------------------------------
(* services/jobStore.ts                                                    *)

\* The lists of unfilled fields a platform routine returns with needs_input.
RequiredInputLists == {<<"f1">>, <<"f2", "f1">>}

\* setRequiredInputs storing the fields in another order.
setRequiredInputsReordered(s, id, inputs) ==
    [s EXCEPT !.requiredInputs[id] = [i \in 1..Len(inputs) |-> inputs[Len(inputs) + 1 - i]],
              !.jobStatus[id] = "needs_input"]

setRequiredInputs(s, id, inputs) ==
    [s EXCEPT !.requiredInputs[id] = inputs, !.jobStatus[id] = "needs_input"]

-----------------------------------------------------------------------------
(* JobApplicator.applyToJob, one operator per run-to-completion segment.   *)
(* c is the activation (who called), t the time of the segment.            *)

\* finally { if (!this.loginState.required) this.currentJob = null }
applyFinally(s, c) ==
    [s EXCEPT !.currentJob = IF s.loginState.required THEN @ ELSE NoJob,
              !.att[c] = IdleAtt]

applyReturn(s, c, r) == Returned(applyFinally(s, c), c, s.att[c].job, r)

\* catch (error): the error screenshot and the close are awaited when a page
\* is active; otherwise the Failed result is returned at once.
applyCatch(s, c) ==
    IF s.activePage # 0 /\ ~isClosed(s, s.activePage)
    THEN Pending([s EXCEPT !.att[c].pc = "err", !.att[c].page = s.activePage])
    ELSE applyReturn(s, c, Result("failed", "thrown"))

\* const page = this.activePage; platform detection; page.goto is awaited.
applyWithPage(s, c, p) ==
    LET j == s.att[c].job
        plat == IF s.jobPlatform[j] \in {"company_website", "unknown"}
                THEN detectPlatformFromUrl(j)
                ELSE s.jobPlatform[j]
    IN  Pending([s EXCEPT !.att[c].pc = "nav", !.att[c].page = p,
                          !.jobPlatform[j] = plat])

\* After await this.initialize(): reuse the active page or create one.
applyAfterInitialize(s, c) ==
    IF s.activePage = 0 \/ isClosed(s, s.activePage)
    THEN IF s.context
         THEN Pending([s EXCEPT !.att[c].pc = "newpage"])
         ELSE applyCatch(s, c)   \* this.context!.newPage() on null
    ELSE applyWithPage(s, c, s.activePage)

\* applyToJob going on when canApply denies.
applyToJobUnchecked(s, c, j, t) ==
    LET rc == canApply(s.usage, s.jobPlatform[j], t)
        s1 == [s EXCEPT !.currentJob = j, !.usage = rc.usage,
                        !.att[c] = [IdleAtt EXCEPT !.pc = "start", !.job = j,
                                                   !.asked = s.jobPlatform[j]]]
    IN  IF ~s1.browser
        THEN Pending([s1 EXCEPT !.att[c].pc = "launch"])
        ELSE applyAfterInitialize(s1, c)

\* applyToJob up to its first await.
applyToJob(s, c, j, t) ==
    LET rc == canApply(s.usage, s.jobPlatform[j], t)
        s1 == [s EXCEPT !.currentJob = j, !.usage = rc.usage,
                        !.att[c] = [IdleAtt EXCEPT !.pc = "start", !.job = j,
                                                   !.asked = s.jobPlatform[j]]]
    IN  IF ~rc.allowed
        THEN applyReturn(s1, c, Result("failed", rc.reason))
        ELSE IF ~s1.browser
        THEN Pending([s1 EXCEPT !.att[c].pc = "launch"])
        ELSE applyAfterInitialize(s1, c)

\* chromium.launch and browser.newContext have resolved, or one has thrown.
applyLaunched(s, c, ok) ==
    IF ok
    THEN applyAfterInitialize([s EXCEPT !.browser = TRUE, !.context = TRUE], c)
    ELSE applyCatch(s, c)

\* context.newPage and addStealthScripts have resolved, or one has thrown.
applyPageCreated(s, c, ok) ==
    IF ok
    THEN LET p == FreshPage(s)
         IN  applyWithPage([s EXCEPT !.openPages = @ \cup {p}, !.activePage = p], c, p)
    ELSE applyCatch(s, c)

\* page.goto, waitForPageLoad and checkForBotDetection are over.
\* out: "ok", "bot" (detection found) or "throw".
applyNavigated(s, c, out) ==
    IF out = "throw" THEN applyCatch(s, c)
    ELSE IF out = "bot" THEN Pending([s EXCEPT !.att[c].pc = "botshot"])
    ELSE Pending([s EXCEPT !.att[c].pc = "handler"])

\* The bot-detected screenshot is over: the Failed result is returned with
\* the page left as it is.
applyBotShot(s, c, ok) ==
    IF ok
    THEN applyReturn(s, c, Result("failed", "bot"))
    ELSE applyCatch(s, c)

\* applyHandled recording the submission whatever the handler reports.
applyHandledRecordsAll(s, c, out, fields, t) ==
    LET j == s.att[c].job
    IN  IF out = "throw" THEN applyCatch(s, c)
        ELSE IF out = "login_required"
        THEN Pending([s EXCEPT
                 !.loginState = [required |-> TRUE, platform |-> s.jobPlatform[j],
                                 loginUrl |-> "url", jobId |-> j],
                 !.jobStatus[j] = "login_required",
                 !.att[c].pc = "loginshot", !.att[c].res = out])
        ELSE Pending([s EXCEPT
                 !.usage = recordApplication(s.usage, s.jobPlatform[j], t),
                 !.att[c].pc = "final", !.att[c].res = out,
                 !.att[c].inputs = fields])

\* handler.apply has resolved with out (and, with needs_input, the fields it
\* could not fill), or thrown.
applyHandled(s, c, out, fields, t) ==
    LET j == s.att[c].job
    IN  IF out = "throw" THEN applyCatch(s, c)
        ELSE IF out = "login_required"
        THEN Pending([s EXCEPT
                 !.loginState = [required |-> TRUE, platform |-> s.jobPlatform[j],
                                 loginUrl |-> "url", jobId |-> j],
                 !.jobStatus[j] = "login_required",
                 !.att[c].pc = "loginshot", !.att[c].res = out])
        ELSE IF out = "applied"
        THEN Pending([s EXCEPT
                 !.usage = recordApplication(s.usage, s.jobPlatform[j], t),
                 !.att[c].pc = "final", !.att[c].res = out])
        ELSE Pending([s EXCEPT !.att[c].pc = "final", !.att[c].res = out,
                               !.att[c].inputs = fields])

\* The login-required screenshot is over: the page stays open.
applyLoginShot(s, c, ok) ==
    IF ok
    THEN applyReturn(s, c, Result("login_required", "none"))
    ELSE applyCatch(s, c)

\* The final screenshot and page.close() are over.
applyFinal(s, c, ok) ==
    IF ok
    THEN applyReturn([s EXCEPT !.openPages = @ \ {s.att[c].page}, !.activePage = 0],
                     c,
                     [Result(s.att[c].res,
                             IF s.att[c].res = "failed" THEN "handler" ELSE "none")
                      EXCEPT !.requiredInputs = s.att[c].inputs])
    ELSE applyCatch(s, c)

\* The error screenshot and this.activePage.close() of the catch block are
\* over: a failure there leaves applyToJob as an exception.
applyErrClosed(s, c, ok) ==
    IF ok /\ s.activePage # 0
    THEN applyReturn([s EXCEPT !.openPages = @ \ {s.activePage}, !.activePage = 0],
                     c, Result("failed", "thrown"))
    ELSE applyReturn(s, c, Escaped)

-----------------------------------------------------------------------------
(* JobApplicator: the queue and its loop.                                  *)

InQueue(q, j) == \E i \in 1..Len(q) : q[i].job = j

\* addToQueue without the search for the job's id.
RECURSIVE addToQueueUnchecked(_, _)
addToQueueUnchecked(q, jobs) ==
    IF jobs = <<>> THEN q
    ELSE addToQueueUnchecked(Append(q, [job |-> Head(jobs), retryCount |-> 0]),
                             Tail(jobs))

RECURSIVE addToQueue(_, _)
addToQueue(q, jobs) ==
    IF jobs = <<>> THEN q
    ELSE LET job == Head(jobs)
         IN  addToQueue(IF InQueue(q, job)
                        THEN q
                        ELSE Append(q, [job |-> job, retryCount |-> 0]),
                        Tail(jobs))

\* getRandomDelay(platform), then randomDelay(delay, delay + 30000): the
\* shortest and the longest sleep.
Sleep(p, long) ==
    IF long
    THEN getRateLimitConfig(p).delayMax + ExtraDelayMs
    ELSE getRateLimitConfig(p).delayMin

\* processQueue leaves its loop: finally { this.isProcessing = false }.
loopExit(s) == [s EXCEPT !.isProcessing = FALSE, !.loop = IdleLoop]

\* loopFailed giving a failed job one retry only.
loopFailedOneRetry(s, job, retryCount, r) ==
    IF retryCount < 1 /\ r.error # "bot"
    THEN [s EXCEPT !.queue = Append(@, [job |-> job, retryCount |-> retryCount + 1])]
    ELSE [s EXCEPT !.jobStatus[job] = "failed"]

\* loopFailed retrying a failed job once more than MaxRetries.
loopFailedExtraRetry(s, job, retryCount, r) ==
    IF retryCount < MaxRetries + 1 /\ r.error # "bot"
    THEN [s EXCEPT !.queue = Append(@, [job |-> job, retryCount |-> retryCount + 1])]
    ELSE [s EXCEPT !.jobStatus[job] = "failed"]

\* loopFailed putting the retry at the front of the queue.
loopFailedAtFront(s, job, retryCount, r) ==
    IF retryCount < MaxRetries /\ r.error # "bot"
    THEN [s EXCEPT !.queue = <<[job |-> job, retryCount |-> retryCount + 1]>> \o @]
    ELSE [s EXCEPT !.jobStatus[job] = "failed"]

\* The Failed branch of processQueue.
loopFailed(s, job, retryCount, r) ==
    IF retryCount < MaxRetries /\ r.error # "bot"
    THEN [s EXCEPT !.queue = Append(@, [job |-> job, retryCount |-> retryCount + 1])]
    ELSE [s EXCEPT !.jobStatus[job] = "failed"]

\* loopAfterApply putting the item of a login interrupt at the back.
loopAfterApplyInterruptAtBack(s, r, long, t) ==
    LET job == s.loop.job
        retryCount == s.loop.retryCount
    IN  IF r.status = "exception" THEN loopExit(s)
        ELSE IF r.status = "login_required"
        THEN loopExit([s EXCEPT
                 !.queue = Append(@, [job |-> job, retryCount |-> retryCount])])
        ELSE LET s1 == IF r.status = "applied"
                       THEN [s EXCEPT !.jobStatus[job] = "applied"]
                       ELSE IF r.status = "needs_input"
                       THEN setRequiredInputs(s, job, r.requiredInputs)
                       ELSE loopFailed(s, job, retryCount, r)
             IN  IF s1.queue # <<>> /\ ~s1.isPaused /\ ~s1.loginState.required
                 THEN [s1 EXCEPT !.loop.pc = "delay",
                                 !.loop.wakeAt = t + Sleep(s1.jobPlatform[job], long)]
                 ELSE loopExit(s1)

\* processQueue after `await this.applyToJob(job)` has returned r.
loopAfterApply(s, r, long, t) ==
    LET job == s.loop.job
        retryCount == s.loop.retryCount
    IN  IF r.status = "exception" THEN loopExit(s)
        ELSE IF r.status = "login_required"
        THEN loopExit([s EXCEPT
                 !.queue = <<[job |-> job, retryCount |-> retryCount]>> \o @])
        ELSE LET s1 == IF r.status = "applied"
                       THEN [s EXCEPT !.jobStatus[job] = "applied"]
                       ELSE IF r.status = "needs_input"
                       THEN setRequiredInputs(s, job, r.requiredInputs)
                       ELSE loopFailed(s, job, retryCount, r)
             IN  IF s1.queue # <<>> /\ ~s1.isPaused /\ ~s1.loginState.required
                 THEN [s1 EXCEPT !.loop.pc = "delay",
                                 !.loop.wakeAt = t + Sleep(s1.jobPlatform[job], long)]
                 ELSE loopExit(s1)

\* loopIterate not testing isPaused.
loopIterateIgnoresPause(s, long, t) ==
    IF s.queue # <<>> /\ ~s.loginState.required
    THEN LET item == Head(s.queue)
             s1 == [s EXCEPT !.queue = Tail(@),
                             !.jobStatus[item.job] = "applying",
                             !.loop = [pc |-> "applying", job |-> item.job,
                                       retryCount |-> item.retryCount, wakeAt |-> 0]]
             r == applyToJob(s1, "loop", item.job, t)
         IN  IF r.done THEN loopAfterApply(r.st, r.result, long, t) ELSE r.st
    ELSE loopExit(s)

\* The head of the while loop: shift an item and start on it.
loopIterate(s, long, t) ==
    IF s.queue # <<>> /\ ~s.isPaused /\ ~s.loginState.required
    THEN LET item == Head(s.queue)
             s1 == [s EXCEPT !.queue = Tail(@),
                             !.jobStatus[item.job] = "applying",
                             !.loop = [pc |-> "applying", job |-> item.job,
                                       retryCount |-> item.retryCount, wakeAt |-> 0]]
             r == applyToJob(s1, "loop", item.job, t)
         IN  IF r.done THEN loopAfterApply(r.st, r.result, long, t) ELSE r.st
    ELSE loopExit(s)

\* processQueue not testing isProcessing.
processQueueReentrant(s, long, t) ==
    IF s.isPaused \/ s.loginState.required
    THEN s
    ELSE loopIterate([s EXCEPT !.isProcessing = TRUE], long, t)

processQueue(s, long, t) ==
    IF s.isProcessing \/ s.isPaused \/ s.loginState.required
    THEN s
    ELSE loopIterate([s EXCEPT !.isProcessing = TRUE], long, t)

pause(s) == [s EXCEPT !.isPaused = TRUE]

resume(s, long, t) == processQueue([s EXCEPT !.isPaused = FALSE], long, t)

\* clearQueue dropping the login interrupt with the queue.
clearQueueAndLogin(s) == [s EXCEPT !.queue = <<>>, !.loginState = NoLogin]

clearQueue(s) == [s EXCEPT !.queue = <<>>]

resetLoginState(s) == [s EXCEPT !.loginState = NoLogin]

-----------------------------------------------------------------------------
(* JobApplicator.continueAfterLogin.                                       *)

resumeReturn(s, r) ==
    Returned([s EXCEPT !.att["resume"] = IdleAtt], "resume", s.att["resume"].job, r)

\* catch (error) of continueAfterLogin.
resumeCatch(s) ==
    LET job == s.att["resume"].job
        s1 == resetLoginState(s)
    IN  IF s1.activePage # 0 /\ ~isClosed(s1, s1.activePage)
        THEN Pending([s1 EXCEPT !.att["resume"].pc = "rerr",
                                !.att["resume"].page = s1.activePage])
        ELSE resumeReturn([s1 EXCEPT !.jobStatus[job] = "failed"],
                          Result("failed", "thrown"))

continueAfterLogin(s, t) ==
    LET job == s.loginState.jobId
        s1 == [s EXCEPT !.jobStatus[job] = "applying"]
    IN  IF ~s.loginState.required \/ job = NoJob
        THEN [st |-> s, done |-> TRUE, result |-> NoResult]
        ELSE IF s1.activePage # 0 /\ ~isClosed(s1, s1.activePage)
        THEN Pending([resetLoginState(s1) EXCEPT
                 !.att["resume"] = [IdleAtt EXCEPT !.pc = "rnav", !.job = job,
                                                   !.page = s1.activePage]])
        ELSE applyToJob(resetLoginState(s1), "resume", job, t)

\* this.activePage.goto and waitForPageLoad are over.
resumeNavigated(s, ok) ==
    IF ok /\ s.activePage # 0
    THEN Pending([s EXCEPT !.att["resume"].pc = "rhandler"])
    ELSE resumeCatch(s)

\* handler.apply has resolved with out, or thrown.
resumeHandled(s, out, fields, t) ==
    LET job == s.att["resume"].job
    IN  IF out = "throw" THEN resumeCatch(s)
        ELSE IF out = "applied"
        THEN Pending([s EXCEPT
                 !.usage = recordApplication(s.usage, s.jobPlatform[job], t),
                 !.jobStatus[job] = "applied",
                 !.att["resume"].pc = "rfinal", !.att["resume"].res = out])
        ELSE IF out = "needs_input"
        THEN Pending([setRequiredInputs(s, job, fields) EXCEPT
                 !.att["resume"].pc = "rfinal", !.att["resume"].res = out,
                 !.att["resume"].inputs = fields])
        ELSE IF out = "login_required"
        THEN resumeReturn([s EXCEPT
                 !.loginState = [required |-> TRUE, platform |-> s.jobPlatform[job],
                                 loginUrl |-> "url", jobId |-> job],
                 !.jobStatus[job] = "login_required"],
                 Result("login_required", "none"))
        ELSE Pending([s EXCEPT !.jobStatus[job] = "failed",
                               !.att["resume"].pc = "rfinal", !.att["resume"].res = out])

\* The screenshot (its failure is only logged) and this.activePage.close().
resumeFinal(s) ==
    IF s.activePage # 0
    THEN resumeReturn([s EXCEPT !.openPages = @ \ {s.activePage}, !.activePage = 0],
                      [Result(s.att["resume"].res,
                              IF s.att["resume"].res = "failed" THEN "handler" ELSE "none")
                       EXCEPT !.requiredInputs = s.att["resume"].inputs])
    ELSE resumeCatch(s)

\* The close awaited in the catch block is over.
resumeErrClosed(s) ==
    LET job == s.att["resume"].job
    IN  resumeReturn([s EXCEPT !.openPages = @ \ {s.att["resume"].page},
                               !.activePage = 0,
                               !.jobStatus[job] = "failed"],
                     Result("failed", "thrown"))

-----------------------------------------------------------------------------
(* JobApplicator.close, as POST /automation/cancel calls it.               *)

\* The reset of loginState that ends close(), then the route's clearQueue().
closeEnd(s) ==
    clearQueue([s EXCEPT !.loginState = NoLogin,
                         !.cancel = [IdleCancel EXCEPT !.done = TRUE]])

closeAfterContext(s) ==
    IF s.browser
    THEN [s EXCEPT !.cancel.pc = "browser"]
    ELSE closeEnd(s)

closeAfterPage(s) ==
    IF s.context
    THEN [s EXCEPT !.cancel.pc = "context"]
    ELSE closeAfterContext(s)

close(s) ==
    IF s.activePage # 0
    THEN [s EXCEPT !.cancel = [IdleCancel EXCEPT !.pc = "page", !.page = s.activePage]]
    ELSE closeAfterPage([s EXCEPT !.cancel = IdleCancel])

\* await this.activePage.close().catch(() => {}); this.activePage = null
closePageClosed(s) ==
    closeAfterPage([s EXCEPT !.openPages = @ \ {s.cancel.page}, !.activePage = 0])

\* await this.context.close(), which closes the pages of the context; when it
\* throws, close() rejects and the route answers 500.
closeContextClosed(s, ok) ==
    IF ok
    THEN closeAfterContext([s EXCEPT !.context = FALSE, !.openPages = {}])
    ELSE [s EXCEPT !.cancel = IdleCancel]

\* await this.browser.close()
closeBrowserClosed(s, ok) ==
    IF ok
    THEN closeEnd([s EXCEPT !.browser = FALSE, !.openPages = {}])
    ELSE [s EXCEPT !.cancel = IdleCancel]

-----------------------------------------------------------------------------
(* api/routes.ts                                                           *)

\* POST /jobs/apply-batch: the jobs the rate limiter allows, in order.
RECURSIVE batchCheck(_, _, _)
batchCheck(s, jobIds, t) ==
    IF jobIds = <<>> THEN [st |-> s, jobsToProcess |-> <<>>]
    ELSE LET job == Head(jobIds)
             rc == canApply(s.usage, s.jobPlatform[job], t)
             s1 == [s EXCEPT !.usage = rc.usage]
             rest == batchCheck(s1, Tail(jobIds), t)
         IN  [st |-> rest.st,
              jobsToProcess |-> IF rc.allowed
                                THEN <<job>> \o rest.jobsToProcess
                                ELSE rest.jobsToProcess]

applyBatch(s, jobIds, long, t) ==
    LET b == batchCheck(s, jobIds, t)
    IN  IF b.jobsToProcess # <<>>
        THEN processQueue([b.st EXCEPT !.queue = addToQueue(@, b.jobsToProcess)], long, t)
        ELSE b.st

\* POST /jobs/:id/retry
retry(s, job, long, t) ==
    processQueue([s EXCEPT !.jobStatus[job] = "ready",
                           !.queue = addToQueue(@, <<job>>)], long, t)

\* POST /jobs/:id/apply after applyToJob has returned r (or thrown).
directAfterApply(s, job, r) ==
    IF r.status = "applied" THEN [s EXCEPT !.jobStatus[job] = "applied"]
    ELSE IF r.status = "needs_input" THEN setRequiredInputs(s, job, r.requiredInputs)
    ELSE [s EXCEPT !.jobStatus[job] = "failed"]

\* POST /jobs/:id/apply up to the first await.
directApply(s, job, t) ==
    LET rc == canApply(s.usage, s.jobPlatform[job], t)
        s1 == [s EXCEPT !.usage = rc.usage]
        r == applyToJob([s1 EXCEPT !.jobStatus[job] = "applying"], "direct", job, t)
    IN  IF ~rc.allowed THEN s1
        ELSE IF r.done THEN directAfterApply(r.st, job, r.result)
        ELSE r.st

\* POST /automation/login-complete after continueAfterLogin has returned r;
\* when it has thrown, the route's catch answers 500 and nothing else runs.
loginCompleteAfter(s, r, long, t) ==
    IF r.status = "exception" THEN s
    ELSE IF ~s.loginState.required THEN processQueue(s, long, t)
    ELSE s

\* loginComplete restarting the queue when no login is pending.
loginCompleteRestarts(s, long, t) ==
    LET r == continueAfterLogin(s, t)
    IN  IF ~s.loginState.required THEN resume(s, long, t)
        ELSE IF r.done THEN loginCompleteAfter(r.st, r.result, long, t)
        ELSE r.st

\* POST /automation/login-complete up to the first await.
loginComplete(s, long, t) ==
    LET r == continueAfterLogin(s, t)
    IN  IF ~s.loginState.required THEN s
        ELSE IF r.done THEN loginCompleteAfter(r.st, r.result, long, t)
        ELSE r.st

\* What follows the return of activation c's applyToJob / continueAfterLogin.
finish(r, c, job, long, t) ==
    IF ~r.done THEN r.st
    ELSE IF c = "loop" THEN loopAfterApply(r.st, r.result, long, t)
    ELSE IF c = "direct" THEN directAfterApply(r.st, job, r.result)
    ELSE loginCompleteAfter(r.st, r.result, long, t)

-----------------------------------------------------------------------------
(* The state machine.                                                      *)

Init ==
    /\ now = StartTime
    /\ env \in EnvChoices
    /\ usage = [p \in Platforms |-> NoUsage]
    /\ queue = <<>>
    /\ isProcessing = FALSE
    /\ isPaused = FALSE
    /\ currentJob = NoJob
    /\ activePage = 0
    /\ openPages = {}
    /\ loginState = NoLogin
    /\ browser = FALSE
    /\ context = FALSE
    /\ jobStatus = [j \in StoredJobs |-> "ready"]
    /\ jobPlatform = [j \in StoredJobs |-> InitialPlatform(j)]
    /\ requiredInputs = [j \in StoredJobs |-> <<>>]
    /\ att = [c \in Callers |-> IdleAtt]
    /\ loop = IdleLoop
    /\ cancel = IdleCancel
    /\ last = NoLast
    /\ ops = 0
    /\ faults = 0

\* A segment of a running activation.
\* thrown: an awaited call of the segment has thrown.
Events == ops + faults + TickCount(now)

Internal(s, thrown) ==
    /\ Commit(s)
    /\ thrown => faults < MaxFaults /\ Events < MaxEvents
    /\ faults' = IF thrown THEN faults + 1 ELSE faults
    /\ UNCHANGED <<now, env, ops>>

\* A request of the control surface, up to its first await.
Request(s) ==
    /\ ops < MaxOps
    /\ Events < MaxEvents
    /\ ops' = ops + 1
    /\ Commit(s)
    /\ UNCHANGED <<now, env, faults>>

Batches == {<<j>> : j \in Jobs} \cup {<<"j1", k>> : k \in Jobs}

PageOpen(c) == att[c].page \in openPages

Advance(d, max) ==
    /\ TickCount(now + d) <= max
    /\ now' = now + d
    /\ UNCHANGED <<env, usage, queue, isProcessing, isPaused, currentJob,
                   activePage, openPages, loginState, browser, context, jobStatus,
                   jobPlatform, requiredInputs, att, loop, cancel, last, ops, faults>>

\* No activation is inside an awaited browser call.
Quiescent == cancel.pc = "idle" /\ \A c \in Callers : att[c].pc = "idle"

\* The clock steps are long compared with an awaited browser call: time
\* advances between attempts, while the loop sleeps or nothing runs, and once
\* the rate limiter holds a window that the step can move.
Tick(d) ==
    /\ Quiescent
    /\ \E p \in Platforms : usage[p].has
    /\ Events < MaxEvents
    /\ Advance(d, MaxTicks)

\* A request that submits jobs arrives.
Enqueue(s) == [s EXCEPT !.cancel.done = FALSE]

ApplyBatch(jobIds, long) == Request(applyBatch(Enqueue(Cur), jobIds, long, now))

Retry(job, long) == Request(retry(Enqueue(Cur), job, long, now))

DirectApply(job) ==
    /\ att["direct"].pc = "idle"
    /\ Request(directApply(Enqueue(Cur), job, now))

LoginComplete(long) ==
    /\ att["resume"].pc = "idle"
    /\ Request(loginComplete(Cur, long, now))

Pause == Request(pause(Cur))

Resume(long) == Request(resume(Cur, long, now))

ClearQueue == Request(clearQueue(Cur))

Cancel ==
    /\ cancel.pc = "idle"
    /\ Request(close(Cur))

Launched(c, ok, long) ==
    /\ att[c].pc = "launch"
    /\ Internal(finish(applyLaunched(Cur, c, ok), c, att[c].job, long, now), ~ok)

PageCreated(c, ok, long) ==
    /\ att[c].pc = "newpage"
    /\ ok => context /\ HasFreshPage(Cur)
    /\ Internal(finish(applyPageCreated(Cur, c, ok), c, att[c].job, long, now), ~ok)

Navigated(c, out, long) ==
    /\ att[c].pc = "nav"
    /\ out # "throw" => PageOpen(c)
    /\ Internal(finish(applyNavigated(Cur, c, out), c, att[c].job, long, now), out = "throw")

BotShot(c, ok, long) ==
    /\ att[c].pc = "botshot"
    /\ ok => PageOpen(c)
    /\ Internal(finish(applyBotShot(Cur, c, ok), c, att[c].job, long, now), ~ok)

Handled(c, out, fields, long) ==
    /\ att[c].pc = "handler"
    /\ out \notin {"failed", "throw"} => PageOpen(c)
    /\ Internal(finish(applyHandled(Cur, c, out, fields, now), c, att[c].job, long, now),
                out = "throw")

LoginShot(c, ok, long) ==
    /\ att[c].pc = "loginshot"
    /\ ok => PageOpen(c)
    /\ Internal(finish(applyLoginShot(Cur, c, ok), c, att[c].job, long, now), ~ok)

Final(c, ok, long) ==
    /\ att[c].pc = "final"
    /\ ok => PageOpen(c)
    /\ Internal(finish(applyFinal(Cur, c, ok), c, att[c].job, long, now), ~ok)

ErrClosed(c, ok, long) ==
    /\ att[c].pc = "err"
    /\ ok => PageOpen(c)
    /\ Internal(finish(applyErrClosed(Cur, c, ok), c, att[c].job, long, now), ~ok)

ResumeNavigated(ok) ==
    /\ att["resume"].pc = "rnav"
    /\ ok => activePage \in openPages
    /\ Internal(finish(resumeNavigated(Cur, ok), "resume", att["resume"].job, FALSE, now), ~ok)

ResumeHandled(out, fields, long) ==
    /\ att["resume"].pc = "rhandler"
    /\ out \notin {"failed", "throw"} => activePage \in openPages
    /\ Internal(finish(resumeHandled(Cur, out, fields, now), "resume", att["resume"].job,
                       long, now),
                out = "throw")

ResumeFinal(long) ==
    /\ att["resume"].pc = "rfinal"
    /\ Internal(finish(resumeFinal(Cur), "resume", att["resume"].job, long, now), FALSE)

ResumeErrClosed(long) ==
    /\ att["resume"].pc = "rerr"
    /\ Internal(finish(resumeErrClosed(Cur), "resume", att["resume"].job, long, now), FALSE)

\* The spacing sleep of processQueue is over.
WakeUp(long) ==
    /\ loop.pc = "delay"
    /\ now >= loop.wakeAt
    /\ Internal(loopIterate(Cur, long, now), FALSE)

ClosePageClosed ==
    /\ cancel.pc = "page"
    /\ Internal(closePageClosed(Cur), FALSE)

CloseContextClosed(ok) ==
    /\ cancel.pc = "context"
    /\ Internal(closeContextClosed(Cur, ok), ~ok)

CloseBrowserClosed(ok) ==
    /\ cancel.pc = "browser"
    /\ Internal(closeBrowserClosed(Cur, ok), ~ok)

Outcomes == {"applied", "needs_input", "failed", "login_required", "throw"}

\* The requiredInputs of a result: a list with needs_input, undefined otherwise.
Fields(out) == IF out = "needs_input" THEN RequiredInputLists ELSE {<<>>}

\* The draws of the random spacing that an activation's continuation can use:
\* the lowest and the highest; the direct-apply route never sleeps.
Draws(c) == IF c = "direct" THEN {FALSE} ELSE BOOLEAN

Next ==
    \/ \E d \in TickSteps : Tick(d)
    \/ \E b \in Batches, long \in BOOLEAN : ApplyBatch(b, long)
    \/ \E j \in Jobs, long \in BOOLEAN : Retry(j, long)
    \/ \E j \in Jobs : DirectApply(j)
    \/ \E long \in BOOLEAN : LoginComplete(long)
    \/ Pause
    \/ \E long \in BOOLEAN : Resume(long)
    \/ ClearQueue
    \/ Cancel
    \/ \E c \in Callers, ok \in BOOLEAN : \E long \in Draws(c) : Launched(c, ok, long)
    \/ \E c \in Callers, ok \in BOOLEAN : \E long \in Draws(c) : PageCreated(c, ok, long)
    \/ \E c \in Callers, out \in {"ok", "bot", "throw"} :
           \E long \in Draws(c) : Navigated(c, out, long)
    \/ \E c \in Callers, ok \in BOOLEAN : \E long \in Draws(c) : BotShot(c, ok, long)
    \/ \E c \in Callers, out \in Outcomes :
           \E fields \in Fields(out), long \in Draws(c) : Handled(c, out, fields, long)
    \/ \E c \in Callers, ok \in BOOLEAN : \E long \in Draws(c) : LoginShot(c, ok, long)
    \/ \E c \in Callers, ok \in BOOLEAN : \E long \in Draws(c) : Final(c, ok, long)
    \/ \E c \in Callers, ok \in BOOLEAN : \E long \in Draws(c) : ErrClosed(c, ok, long)
    \/ \E ok \in BOOLEAN : ResumeNavigated(ok)
    \/ \E out \in Outcomes, long \in BOOLEAN :
           \E fields \in Fields(out) : ResumeHandled(out, fields, long)
    \/ \E long \in BOOLEAN : ResumeFinal(long)
    \/ \E long \in BOOLEAN : ResumeErrClosed(long)
    \/ \E long \in BOOLEAN : WakeUp(long)
    \/ ClosePageClosed
    \/ \E ok \in BOOLEAN : CloseContextClosed(ok)
    \/ \E ok \in BOOLEAN : CloseBrowserClosed(ok)

Spec == Init /\ [][Next]_vars

-----------------------------------------------------------------------------
(* The rate limiter alone, driven through its public methods.              *)

\* One platform is exercised per behaviour.
OnlyPlatform(p) == \A q \in Platforms \ {p} : ~usage[q].has

RateCanApply(p) ==
    /\ OnlyPlatform(p)
    /\ usage' = canApply(usage, p, now).usage
    /\ UNCHANGED <<now, env, queue, isProcessing, isPaused, currentJob, activePage,
                   openPages, loginState, browser, context, jobStatus, jobPlatform,
                   requiredInputs, att, loop, cancel, last, ops, faults>>

RateRecord(p) ==
    /\ OnlyPlatform(p)
    /\ usage[p].hourlyCount < MaxRecorded
    /\ usage' = recordApplication(usage, p, now)
    /\ UNCHANGED <<now, env, queue, isProcessing, isPaused, currentJob,
                   activePage, openPages, loginState, browser, context, jobStatus,
                   jobPlatform, requiredInputs, att, loop, cancel, last, ops, faults>>

RateTick(d) == Advance(d, MaxRateTicks)

RateInit ==
    /\ now = StartTime
    /\ env \in [delayMin : DelayMinChoices, dailyLimit : DailyLimitChoices]
    /\ usage = [p \in Platforms |-> NoUsage]
    /\ queue = <<>>
    /\ isProcessing = FALSE
    /\ isPaused = FALSE
    /\ currentJob = NoJob
    /\ activePage = 0
    /\ openPages = {}
    /\ loginState = NoLogin
    /\ browser = FALSE
    /\ context = FALSE
    /\ jobStatus = [j \in StoredJobs |-> "ready"]
    /\ jobPlatform = [j \in StoredJobs |-> InitialPlatform(j)]
    /\ requiredInputs = [j \in StoredJobs |-> <<>>]
    /\ att = [c \in Callers |-> IdleAtt]
    /\ loop = IdleLoop
    /\ cancel = IdleCancel
    /\ last = NoLast
    /\ ops = 0
    /\ faults = 0

RateNext ==
    \/ \E d \in RateTickSteps : RateTick(d)
    \/ \E p \in Platforms : RateCanApply(p)
    \/ \E p \in Platforms : RateRecord(p)

RateSpec == RateInit /\ [][RateNext]_vars

-----------------------------------------------------------------------------
(* The orchestrator from the state a login interrupt of the loop leaves.   *)

\* The state after POST /jobs/apply-batch with [j1] \o rest, the platform
\* routine reporting login_required for j1 and the loop stopping. retained:
\* the login-required screenshot succeeded and the page is kept; otherwise it
\* threw, the catch block closed the page and the loop appended j1 for a retry
\* while loginState stayed required.
FrozenAfter(rest, retained) ==
    LET window == [NoUsage EXCEPT !.has = TRUE, !.hourlyResetTime = StartTime + HourMs,
                                  !.dailyResetTime = StartTime + DayMs]
        waiting == [i \in 1..Len(rest) |-> [job |-> rest[i], retryCount |-> 0]]
    IN  [usage |-> [p \in Platforms |->
                       IF p = "workable" \/ (p = "company_website" /\ rest # <<>>)
                       THEN window ELSE NoUsage],
         queue |-> IF retained
                   THEN <<[job |-> "j1", retryCount |-> 0]>> \o waiting
                   ELSE waiting \o <<[job |-> "j1", retryCount |-> 1]>>,
         isProcessing |-> FALSE, isPaused |-> FALSE, currentJob |-> "j1",
         activePage |-> IF retained THEN 1 ELSE 0,
         openPages |-> IF retained THEN {1} ELSE {},
         loginState |-> [required |-> TRUE, platform |-> "workable",
                         loginUrl |-> "url", jobId |-> "j1"],
         browser |-> TRUE, context |-> TRUE,
         jobStatus |-> [j \in StoredJobs |-> IF j = "j1" THEN "login_required" ELSE "ready"],
         jobPlatform |-> [j \in StoredJobs |-> InitialPlatform(j)],
         requiredInputs |-> [j \in StoredJobs |-> <<>>],
         att |-> [c \in Callers |-> IdleAtt], loop |-> IdleLoop, cancel |-> IdleCancel,
         last |-> [n |-> 1, caller |-> "loop", job |-> "j1", retryCount |-> 0,
                   status |-> IF retained THEN "login_required" ELSE "failed",
                   error |-> IF retained THEN "none" ELSE "thrown",
                   requiredInputs |-> <<>>]]

\* Requests and thrown calls are counted from the interrupt on; the batch
\* held j1 alone or j1 followed by j2.
FrozenInit ==
    /\ now = StartTime
    /\ env = [delayMin |-> DefaultDelayMin, dailyLimit |-> DefaultDailyLimit]
    /\ ops = 0
    /\ faults = 0
    /\ \E rest \in {<<>>, <<"j2">>}, retained \in BOOLEAN :
           LET f == FrozenAfter(rest, retained)
           IN  /\ usage = f.usage
               /\ queue = f.queue
               /\ isProcessing = f.isProcessing
               /\ isPaused = f.isPaused
               /\ currentJob = f.currentJob
               /\ activePage = f.activePage
               /\ openPages = f.openPages
               /\ loginState = f.loginState
               /\ browser = f.browser
               /\ context = f.context
               /\ jobStatus = f.jobStatus
               /\ jobPlatform = f.jobPlatform
               /\ requiredInputs = f.requiredInputs
               /\ att = f.att
               /\ loop = f.loop
               /\ cancel = f.cancel
               /\ last = f.last

FrozenSpec == FrozenInit /\ [][Next]_vars

-----------------------------------------------------------------------------
(* The orchestrator with two submissions left in the hourly window.        *)

\* The three jobs of one target that the batch names.
HourlyBatch == <<"j1", "j3", "j4">>

\* The session is up, no page is open, and the hourly window of workable that
\* opened at StartTime counts all but two of the submissions its cap allows.
HourlyBefore ==
    [usage |-> [p \in Platforms |->
                   IF p = "workable"
                   THEN [has |-> TRUE, hourlyCount |-> DefaultHourlyLimit - 2,
                         dailyCount |-> DefaultHourlyLimit - 2,
                         lastApplicationTime |-> StartTime,
                         hourlyResetTime |-> StartTime + HourMs,
                         dailyResetTime |-> StartTime + DayMs]
                   ELSE NoUsage],
     queue |-> <<>>, isProcessing |-> FALSE, isPaused |-> FALSE, currentJob |-> NoJob,
     activePage |-> 0, openPages |-> {}, loginState |-> NoLogin,
     browser |-> TRUE, context |-> TRUE,
     jobStatus |-> [j \in StoredJobs |-> "ready"],
     jobPlatform |-> [j \in StoredJobs |-> InitialPlatform(j)],
     requiredInputs |-> [j \in StoredJobs |-> <<>>],
     att |-> [c \in Callers |-> IdleAtt], loop |-> IdleLoop, cancel |-> IdleCancel,
     last |-> NoLast]

\* POST /jobs/apply-batch with the three jobs has run up to its first await,
\* with DEFAULT_DELAY_MIN=0. Requests and thrown calls are counted from there.
HourlyInit ==
    LET start(f) ==
            /\ usage = f.usage
            /\ queue = f.queue
            /\ isProcessing = f.isProcessing
            /\ isPaused = f.isPaused
            /\ currentJob = f.currentJob
            /\ activePage = f.activePage
            /\ openPages = f.openPages
            /\ loginState = f.loginState
            /\ browser = f.browser
            /\ context = f.context
            /\ jobStatus = f.jobStatus
            /\ jobPlatform = f.jobPlatform
            /\ requiredInputs = f.requiredInputs
            /\ att = f.att
            /\ loop = f.loop
            /\ cancel = f.cancel
            /\ last = f.last
    IN  /\ now = StartTime
        /\ env = [delayMin |-> 0, dailyLimit |-> DefaultDailyLimit]
        /\ ops = 0
        /\ faults = 0
        /\ \E long \in BOOLEAN : start(applyBatch(HourlyBefore, HourlyBatch, long, StartTime))

\* The loop works through the batch.
HourlyNext ==
    \/ \E d \in TickSteps : Tick(d)
    \/ \E ok \in BOOLEAN, long \in BOOLEAN : PageCreated("loop", ok, long)
    \/ \E out \in {"ok", "bot", "throw"}, long \in BOOLEAN : Navigated("loop", out, long)
    \/ \E ok \in BOOLEAN, long \in BOOLEAN : BotShot("loop", ok, long)
    \/ \E out \in Outcomes :
           \E fields \in Fields(out), long \in BOOLEAN : Handled("loop", out, fields, long)
    \/ \E ok \in BOOLEAN, long \in BOOLEAN : LoginShot("loop", ok, long)
    \/ \E ok \in BOOLEAN, long \in BOOLEAN : Final("loop", ok, long)
    \/ \E ok \in BOOLEAN, long \in BOOLEAN : ErrClosed("loop", ok, long)
    \/ \E long \in BOOLEAN : WakeUp(long)

HourlySpec == HourlyInit /\ [][HourlyNext]_vars

TypeOK ==
    /\ \A c \in Callers : att[c].page \in 0..NumPages
    /\ activePage \in 0..NumPages
    /\ openPages \subseteq PageIds
    /\ \A i \in 1..Len(queue) : queue[i].job \in Jobs /\ queue[i].retryCount \in 0..MaxRetries
    /\ loop.pc \in {"idle", "applying", "delay"}
    /\ cancel.pc \in {"idle", "page", "context", "browser"}
    /\ ops \in 0..MaxOps
    /\ faults \in 0..MaxFaults
    /\ last.n \in Nat

-----------------------------------------------------------------------------
(* The rate limiter's counters and guards.                                 *)

\* What canApply reads once the expired windows are reset.
Fresh(p) == checkAndResetLimits(usage, p, now)[p]

DailyViolated(p) == Fresh(p).dailyCount >= getRateLimitConfig(p).dailyLimit
HourlyViolated(p) == Fresh(p).hourlyCount >= getRateLimitConfig(p).hourlyLimit
SpacingViolated(p) ==
    now - Fresh(p).lastApplicationTime < getRateLimitConfig(p).delayMin

\* C1: in every reachable state, on every target, hourlyCount is at most
\* hourlyLimit and dailyCount is at most dailyLimit, whichever path finalised
\* the submissions (queue loop, direct apply, resume after login).
C1_CountsWithinLimits ==
    \A p \in Platforms :
        /\ usage[p].hourlyCount <= getRateLimitConfig(p).hourlyLimit
        /\ usage[p].dailyCount <= getRateLimitConfig(p).dailyLimit

\* C2: once hourlyLimit submissions are recorded in the current hourly window
\* and the daily cap is not reached, canApply before the window's end denies
\* with waitTime = hourlyResetTime - now; at or after the window's end the
\* hourly guard no longer denies (the window is reset).
C2_HourlyCapHolds ==
    \A p \in Platforms :
        LET r == canApply(usage, p, now)
        IN  usage[p].has /\ usage[p].hourlyCount >= getRateLimitConfig(p).hourlyLimit
            => /\ (now < usage[p].hourlyResetTime /\ ~DailyViolated(p))
                    => /\ ~r.allowed
                       /\ r.reason = "hourly"
                       /\ r.waitTime = usage[p].hourlyResetTime - now
               /\ now >= usage[p].hourlyResetTime
                    => /\ r.reason # "hourly"
                       /\ r.usage[p].hourlyCount = 0
                       /\ r.usage[p].hourlyResetTime = now + HourMs

\* The hourly cap is reached inside its window, the daily cap is not, and the
\* spacing has elapsed: only the hourly guard denies.
C2_Witness ==
    \E p \in Platforms :
        /\ usage[p].has
        /\ usage[p].hourlyCount >= getRateLimitConfig(p).hourlyLimit
        /\ now < usage[p].hourlyResetTime
        /\ ~DailyViolated(p)
        /\ ~SpacingViolated(p)
        /\ ~canApply(usage, p, now).allowed

\* C3: canApply tests the daily cap, then the hourly cap, then the minimum
\* spacing, and answers with the reason and the waitTime of the first guard
\* that is violated; it allows exactly when none is.
C3_GuardOrder ==
    \A p \in Platforms :
        LET r == canApply(usage, p, now)
            u == Fresh(p)
        IN  /\ r.allowed <=> ~DailyViolated(p) /\ ~HourlyViolated(p) /\ ~SpacingViolated(p)
            /\ DailyViolated(p)
                 => r.reason = "daily" /\ r.waitTime = u.dailyResetTime - now
            /\ ~DailyViolated(p) /\ HourlyViolated(p)
                 => r.reason = "hourly" /\ r.waitTime = u.hourlyResetTime - now
            /\ ~DailyViolated(p) /\ ~HourlyViolated(p) /\ SpacingViolated(p)
                 => /\ r.reason = "delay"
                    /\ r.waitTime = getRateLimitConfig(p).delayMin
                                       - (now - u.lastApplicationTime)

\* All three guards are violated at once and the daily one answers.
C3_Witness ==
    \E p \in Platforms :
        /\ DailyViolated(p) /\ HourlyViolated(p) /\ SpacingViolated(p)
        /\ canApply(usage, p, now).reason = "daily"

-----------------------------------------------------------------------------
(* Recording of submissions.                                               *)

\* Activation c's handler.apply returns Submitted in this step.
Submits(c) ==
    /\ att[c].pc \in {"handler", "rhandler"}
    /\ att'[c].pc \in {"final", "rfinal"}
    /\ att'[c].res = "applied"

\* The counters or the last-submission time of target p move forward.
Counted(p) ==
    \/ usage'[p].lastApplicationTime # usage[p].lastApplicationTime
    \/ usage'[p].hourlyCount > usage[p].hourlyCount
    \/ usage'[p].dailyCount > usage[p].dailyCount

\* C4: recordApplication runs only after the platform routine reports
\* Submitted: a step counts a submission only if a routine returns Submitted
\* in it, and a step in which a routine returns Submitted counts exactly one,
\* on that job's target. No other step (Failed, NeedsInput, AuthRequired, a
\* rate denial, a bot-detection exit, a thrown error) moves a counter forward.
C4_RecordOnlyWhenSubmitted ==
    [][/\ \A p \in Platforms : Counted(p) => \E c \in Callers : Submits(c)
       /\ \A c \in Callers :
              Submits(c) => usage' = recordApplication(usage, jobPlatform[att[c].job], now)]_vars

\* A routine has returned Submitted and its submission is counted once.
C4_Witness ==
    \E c \in Callers :
        /\ att[c].pc \in {"final", "rfinal"}
        /\ att[c].res = "applied"
        /\ usage[jobPlatform[att[c].job]].dailyCount = 1
        /\ usage[jobPlatform[att[c].job]].lastApplicationTime = now

-----------------------------------------------------------------------------
(* The queue.                                                              *)

\* C7: addToQueue of a job the queue already holds is a no-op (the length
\* and every entry's retryCount stay), and a batch naming a job twice adds it
\* once.
C7_EnqueuePresentIsNoOp ==
    \A j \in Jobs, k \in Jobs :
        /\ InQueue(queue, j) => addToQueue(queue, <<j>>) = queue
        /\ InQueue(queue, j) /\ InQueue(queue, k) => addToQueue(queue, <<j, k>>) = queue
        /\ ~InQueue(queue, j)
             => addToQueue(queue, <<j, j>>) = Append(queue, [job |-> j, retryCount |-> 0])

\* The queue holds a job that is waiting for its retry, beside another job.
C7_Witness ==
    /\ Len(queue) = 2
    /\ \E i \in 1..2 : queue[i].retryCount > 0
    /\ addToQueue(queue, <<queue[1].job, queue[2].job>>) = queue

\* C6: the queue never holds two entries for the same job, also when a job
\* is enqueued while it is in flight and then re-appended for a retry or put
\* back at the front for a login.
C6_NoDuplicateInQueue ==
    \A i \in 1..Len(queue), k \in 1..Len(queue) :
        queue[i].job = queue[k].job => i = k

-----------------------------------------------------------------------------
(* Single flight.                                                          *)

InFlight == {c \in Callers : att[c].pc # "idle"}

\* C5: at most one attempt is in flight at any time, whichever of the queue
\* loop, the direct-apply request and the resume after login started it.
C5_SingleFlight == Cardinality(InFlight) <= 1

-----------------------------------------------------------------------------
(* What the queue loop does with a result.                                 *)

\* An attempt returns to caller c in this step.
Returns(c) == last'.n > last.n /\ last'.caller = c

\* The loop was waiting for the attempt that returns.
Awaited == loop.pc = "applying"

QueueEntry(job, retryCount) == [job |-> job, retryCount |-> retryCount]

\* C8: when the loop's attempt returns Failed without bot detection, at
\* retryCount 0 or 1 the job reappears at the back of the queue with
\* retryCount + 1 and is not marked failed; at retryCount 2 it is marked
\* failed and is not requeued.
C8_RetryPolicy ==
    [][Returns("loop") /\ last'.status = "failed" /\ last'.error # "bot"
       => LET job == last'.job
              rc == last'.retryCount
          IN  IF rc \in {0, 1}
              THEN /\ queue' # <<>>
                   /\ queue'[Len(queue')] = QueueEntry(job, rc + 1)
                   /\ Awaited => /\ queue' = Append(queue, QueueEntry(job, rc + 1))
                                 /\ jobStatus' = jobStatus
                   /\ ~Awaited => jobStatus'[job] = "applying"
              ELSE /\ rc = 2
                   /\ jobStatus'[job] = "failed"
                   /\ \A i \in 1..Len(queue') : queue'[i] # QueueEntry(job, rc + 1)
                   /\ Awaited => queue' = queue]_vars

\* The third attempt of a job has failed and the job is marked failed.
C8_Witness ==
    /\ last.caller = "loop"
    /\ last.status = "failed"
    /\ last.error # "bot"
    /\ last.retryCount = 2
    /\ jobStatus[last.job] = "failed"
    /\ ~InQueue(queue, last.job)

Count(q, j) == Cardinality({i \in 1..Len(q) : q[i].job = j})

\* C9: whenever an attempt returns Failed with bot detection, at any
\* retryCount, the job is marked failed and is not put in the queue again.
C9_BotDetectionTerminal ==
    [][\A c \in Callers :
          Returns(c) /\ last'.status = "failed" /\ last'.error = "bot"
          => /\ jobStatus'[last'.job] = "failed"
             /\ Count(queue', last'.job) <= Count(queue, last'.job)]_vars

\* The loop takes an item from the queue in this step.
LoopDequeues ==
    /\ loop.pc # "applying"
    /\ loop'.pc = "applying" \/ Returns("loop")

\* C10: when the loop's attempt returns AuthRequired the queue is frozen:
\* loginState is required with its login URL, the interrupted item is back
\* at the front with its retryCount, the page stays open and the loop has
\* stopped; while loginState is required no item is dequeued except by the
\* login-complete request.
C10_FreezeOnAuthRequired ==
    [][/\ Returns("loop") /\ last'.status = "login_required"
          => /\ loginState'.required
             /\ loginState'.loginUrl # "null"
             /\ queue' # <<>>
             /\ Head(queue') = QueueEntry(last'.job, last'.retryCount)
             /\ activePage' # 0
             /\ activePage' \in openPages'
             /\ loop'.pc = "idle"
             /\ ~isProcessing'
       /\ loginState.required /\ LoopDequeues
          => \E long \in BOOLEAN : LoginComplete(long)]_vars

-----------------------------------------------------------------------------
(* Resume after login.                                                     *)

\* C11: continueAfterLogin resets loginState before it navigates: whenever it
\* returns a result other than login_required (an error thrown while
\* navigating or inside the routine included), loginState is no longer
\* required; it is required after a resume only if login_required was
\* returned again.
C11_ResumeClearsInterrupt ==
    [][Returns("resume") /\ last'.status # "login_required"
       => ~loginState'.required]_vars

\* C12: when the routine reports login_required again during a resume, the
\* orchestrator is frozen again for the same job: loginState is required for
\* it, the page stays open and held, the job is not marked failed, the queue
\* (the job's retryCount with it) is as it was and the loop stays stopped.
C12_ResumeFreezesAgain ==
    [][Returns("resume") /\ last'.status = "login_required"
       => /\ loginState'.required
          /\ loginState'.jobId = last'.job
          /\ activePage' # 0
          /\ activePage' \in openPages'
          /\ jobStatus'[last'.job] # "failed"
          /\ queue' = queue
          /\ ~isProcessing'
          /\ loop'.pc = "idle"]_vars

\* The resume that returns in this step ran applyToJob (no page was held).
ResumeFallback == att["resume"].pc \notin {"rnav", "rhandler", "rfinal", "rerr"}

\* What the loop would note in the job store for a result.
HandledAsNew(job, status) ==
    \/ status = "applied" /\ jobStatus'[job] = "applied"
    \/ status = "needs_input" /\ jobStatus'[job] = "needs_input"
    \/ status = "login_required" /\ jobStatus'[job] = "login_required"
    \/ status = "failed" /\ (jobStatus'[job] = "failed" \/ InQueue(queue', job))

\* C13: login-complete while loginState is required and no page is held
\* discards loginState and gives the job a fresh applyToJob; its outcome is
\* noted in the job store as the loop would note it (unless the loop has
\* already taken the job up again in the same step).
C13_ResumeWithoutPage ==
    [][/\ \A long \in BOOLEAN :
              (/\ LoginComplete(long)
               /\ loginState.required
               /\ (activePage = 0 \/ isClosed(Cur, activePage)))
              => /\ last'.n > last.n \/ att'["resume"].job = loginState.jobId
                 /\ last'.n = last.n => ~loginState'.required
       /\ (Returns("resume") /\ ResumeFallback /\ loop'.job # last'.job)
              => HandledAsNew(last'.job, last'.status)]_vars

\* C14: login-complete while loginState is not required is a no-op: the
\* route answers that nothing is pending and continueAfterLogin returns null;
\* the queue, isPaused, isProcessing, the active page, the rate counters and
\* the job store are as before.
C14_ResumeNothingRetained ==
    ~loginState.required
    => /\ \A long \in BOOLEAN : loginComplete(Cur, long, now) = Cur
       /\ continueAfterLogin(Cur, now) = [st |-> Cur, done |-> TRUE, result |-> NoResult]

\* No login is pending while a paused queue holds a job: login-complete
\* leaves all of it alone.
C14_Witness ==
    /\ ~loginState.required
    /\ isPaused
    /\ queue # <<>>
    /\ ~isProcessing
    /\ loginComplete(Cur, TRUE, now) = Cur

-----------------------------------------------------------------------------
(* Pause, resume and the single loop.                                      *)

\* What processQueue does with the result of the item it awaited.
LoopHandled(job, retryCount, status) ==
    \/ status = "applied" /\ jobStatus'[job] = "applied"
    \/ status = "needs_input" /\ jobStatus'[job] = "needs_input"
    \/ /\ status = "login_required"
       /\ queue' # <<>>
       /\ Head(queue') = QueueEntry(job, retryCount)
    \/ /\ status = "failed"
       /\ \/ jobStatus'[job] = "failed"
          \/ queue' # <<>> /\ queue'[Len(queue')] = QueueEntry(job, retryCount + 1)

C16_SingleLoop ==
    /\ isProcessing <=> loop.pc # "idle"
    /\ \A long \in BOOLEAN :
          /\ (isProcessing \/ isPaused \/ loginState.required)
                => processQueue(Cur, long, now) = Cur
          /\ ~resume(Cur, long, now).isPaused
          /\ (isProcessing \/ loginState.required)
                => resume(Cur, long, now) = [Cur EXCEPT !.isPaused = FALSE]

\* A paused loop still awaits its attempt and the queue holds a job:
\* resume() lifts the pause and starts no second loop.
C16_Witness ==
    /\ isPaused
    /\ isProcessing
    /\ loop.pc = "applying"
    /\ queue # <<>>
    /\ resume(Cur, TRUE, now) = [Cur EXCEPT !.isPaused = FALSE]

-----------------------------------------------------------------------------
(* The order of the queue.                                                 *)

IsPrefix(a, b) == Len(a) <= Len(b) /\ SubSeq(b, 1, Len(a)) = a

\* The item the loop takes in a step in which it dequeues.
Taken ==
    IF Returns("loop")
    THEN QueueEntry(last'.job, last'.retryCount)
    ELSE QueueEntry(loop'.job, loop'.retryCount)

\* C17: the loop works the queue first in, first out. The item it dequeues
\* is the one at the front; a step leaves the waiting items in their order
\* and puts what it adds (enqueued jobs, a retry) behind all of them, the
\* item a login interrupt puts back at the front and clearQueue apart; a
\* retry is appended behind every item then in the queue.
C17_Fifo ==
    [][/\ (LoopDequeues /\ queue # <<>>) => Taken = Head(queue)
       /\ \/ IsPrefix(queue, queue')
          \/ queue # <<>> /\ LoopDequeues /\ IsPrefix(Tail(queue), queue')
          \/ /\ Returns("loop") /\ last'.status = "login_required"
             /\ queue' = <<QueueEntry(last'.job, last'.retryCount)>> \o queue
          \/ queue' = <<>>
       /\ (/\ Returns("loop") /\ Awaited /\ last'.status = "failed"
           /\ last'.error # "bot" /\ last'.retryCount < MaxRetries)
             => queue' = Append(queue, QueueEntry(last'.job, last'.retryCount + 1))]_vars

\* A failed job waits for its retry behind a job that has not been tried yet.
C17_Witness ==
    /\ Len(queue) = 2
    /\ queue[1].retryCount = 0
    /\ queue[2] = QueueEntry(last.job, 1)
    /\ last.caller = "loop"
    /\ last.status = "failed"
    /\ jobStatus[queue[1].job] = "ready"

-----------------------------------------------------------------------------
(* Clearing and cancelling.                                                *)

\* C18: clearQueue empties the queue and changes nothing else, in whatever
\* state it is called: loginState, the held page, isPaused, isProcessing,
\* the rate counters and the activations in progress are as before.
C18_ClearOnlyEmptiesQueue ==
    [][ClearQueue
       => /\ queue' = <<>>
          /\ UNCHANGED <<loginState, activePage, openPages, isPaused, isProcessing,
                         usage, currentJob, browser, context, jobStatus, jobPlatform,
                         requiredInputs, att, loop, cancel, last>>]_vars

\* The queue was cleared while the loop was stopped for a login: the login
\* interrupt and its page are still there.
C18_Witness ==
    /\ queue = <<>>
    /\ loginState.required
    /\ loginState.jobId = "j1"
    /\ activePage \in openPages
    /\ last.n = 1
    /\ last.status = "login_required"
    /\ loop.pc = "idle"
    /\ \A c \in Callers : att[c].pc = "idle"

\* A platform routine (handler.apply) is started in this step.
RoutineStarts ==
    \E c \in Callers :
        /\ att'[c].pc \in {"handler", "rhandler"}
        /\ att[c].pc \notin {"handler", "rhandler"}

\* C19: cancel is a full abort. When the cancel route has finished, browser,
\* context and page are torn down, loginState is clear and the queue is
\* empty; from then on, also when the loop was in the middle of a
\* submission, the queue stays empty and no platform routine is started
\* until a request submits a job again.
C19_CancelAborts ==
    [][/\ (cancel'.done /\ ~cancel.done)
             => /\ ~browser' /\ ~context'
                /\ activePage' = 0
                /\ loginState' = NoLogin
                /\ queue' = <<>>
       /\ (cancel.done /\ cancel'.done)
             => queue' = <<>> /\ ~RoutineStarts]_vars

\* C20: close() tears down the page, then the context, then the browser,
\* each step best-effort: when close() ends, whether or not a step has
\* failed, the caller sees no failure and page, context and browser are all
\* released, so that initialize() and createPage() can start a session
\* again (a browser is never left without its context).
C20_ShutdownBestEffort ==
    [][(cancel.pc # "idle" /\ cancel'.pc = "idle")
       => /\ cancel'.done
          /\ activePage' = 0
          /\ ~context'
          /\ ~browser']_vars

-----------------------------------------------------------------------------
(* The browser session.                                                    *)

\* chromium.launch and browser.newContext of activation c resolve in this step.
LaunchResolves(c) ==
    /\ att[c].pc = "launch"
    /\ att'[c].pc \in {"newpage", "nav"}

\* C21: initialize() is idempotent: a browser session is launched only while
\* none is held, also when initialize() is called while an earlier call still
\* awaits its launch, so that between two shutdowns one session is launched.
C21_SingleSession ==
    [][\A c \in Callers : LaunchResolves(c) => ~browser]_vars

-----------------------------------------------------------------------------
(* The page of an attempt.                                                 *)

\* C22: applyToJob closes its page on every exit but login_required: when the
\* loop takes an item from the queue while no login is pending and no attempt
\* is in flight, no page of an earlier attempt is open.
C22_PageClosedBeforeDequeue ==
    [][(LoopDequeues /\ ~loginState.required /\ InFlight = {})
       => openPages = {}]_vars

-----------------------------------------------------------------------------
(* Errors of an attempt.                                                   *)

\* C23: an error thrown by an awaited call of the loop's attempt (navigation,
\* the platform routine, a screenshot) comes back to processQueue as a Failed
\* result, never as an exception, and the loop goes on: with items left, not
\* paused and no login pending, it sleeps for its next iteration.
C23_FailureIsolation ==
    [][(Returns("loop") /\ Awaited /\ last'.error = "thrown")
       => /\ last'.status = "failed"
          /\ (queue' # <<>> /\ ~isPaused' /\ ~loginState'.required)
                => loop'.pc = "delay"]_vars

-----------------------------------------------------------------------------
(* The outcomes the loop writes to the job store.                          *)

\* C24: when the loop's attempt returns needs_input, setRequiredInputs stores
\* for the job the list of fields exactly as the platform routine returned it
\* (same elements, same order) with status needs_input, the job is not put
\* back in the queue, and the loop goes on: it sleeps for its next iteration
\* when items are left, it is not paused and no login is pending.
C24_NeedsInputStored ==
    [][(Returns("loop") /\ last'.status = "needs_input")
       => /\ last'.requiredInputs = att["loop"].inputs
          /\ requiredInputs'[last'.job] = att["loop"].inputs
          /\ jobStatus'[last'.job] = "needs_input"
          /\ queue' = queue
          /\ IF queue' # <<>> /\ ~isPaused' /\ ~loginState'.required
             THEN loop'.pc = "delay"
             ELSE loop'.pc = "idle"]_vars

\* The routine has returned two fields for j1, the store holds them in that
\* order, j1 is not in the queue and the loop sleeps before the next item.
C24_Witness ==
    /\ last.caller = "loop"
    /\ last.status = "needs_input"
    /\ last.requiredInputs = <<"f2", "f1">>
    /\ requiredInputs[last.job] = <<"f2", "f1">>
    /\ jobStatus[last.job] = "needs_input"
    /\ ~InQueue(queue, last.job)
    /\ queue # <<>>
    /\ loop.pc = "delay"

\* No loop, no attempt and no shutdown is running and no login is pending.
Idle ==
    /\ loop.pc = "idle"
    /\ ~isProcessing
    /\ ~loginState.required
    /\ InFlight = {}
    /\ cancel.pc = "idle"

\* C25: every terminal outcome is written to the job store: when the system
\* is idle, no job outside the queue is left with status applying or
\* login_required, whether its attempt ran for the loop, for the resume after
\* login or for the resume without a held page.
C25_TerminalOutcomeWritten ==
    Idle => \A j \in Jobs :
                ~InQueue(queue, j) => jobStatus[j] \notin {"applying", "login_required"}

-----------------------------------------------------------------------------
(* The hourly cap in the loop.                                             *)

\* The routine has reported Submitted for the first two jobs of the batch,
\* nothing has thrown and the hourly window is the one the run started in.
TwoSubmitted ==
    /\ faults = 0
    /\ now < StartTime + HourMs
    /\ jobStatus["j1"] = "applied"
    /\ jobStatus["j3"] = "applied"

\* C26: with two submissions left under the hourly cap, no minimum spacing
\* and a batch of three jobs whose routine reports Submitted, the first two
\* are recorded (hourlyCount reaches hourlyLimit) and the third is denied by
\* canApply for the hourly limit: its attempt returns Failed with that reason
\* in the step that dequeues it, before any page or routine step, and nothing
\* is recorded for it.
C26_ThirdDeniedHourly ==
    /\ [](TwoSubmitted
          => /\ usage["workable"].hourlyCount = DefaultHourlyLimit
             /\ att["loop"].job # "j4"
             /\ jobStatus["j4"] # "applied"
             /\ last.job = "j4" => last.status = "failed" /\ last.error = "hourly")
    /\ [][(LoopDequeues /\ HourlyViolated("workable") /\ ~DailyViolated("workable")
           /\ jobPlatform[Head(queue).job] = "workable")
          => /\ Returns("loop")
             /\ last'.job = Head(queue).job
             /\ last'.status = "failed"
             /\ last'.error = "hourly"
             /\ att'["loop"].pc = "idle"
             /\ usage'["workable"].hourlyCount = usage["workable"].hourlyCount]_vars

\* The first two jobs are submitted and the attempt of the third has come
\* back denied for the hourly limit.
C26_Witness ==
    /\ TwoSubmitted
    /\ usage["workable"].hourlyCount = DefaultHourlyLimit
    /\ last.job = "j4"
    /\ last.status = "failed"
    /\ last.error = "hourly"
    /\ jobStatus["j4"] = "applying"

-----------------------------------------------------------------------------
(* The outcome of a resumed attempt.                                       *)

\* The retryCount of the queue's entry for job.
RetryCountOf(q, job) == q[CHOOSE i \in 1..Len(q) : q[i].job = job].retryCount

\* C27: continueAfterLogin with a held page treats an outcome other than
\* login_required as processQueue treats it for the interrupted item: Failed
\* without bot detection at retryCount below 2 leaves the job requeued with
\* retryCount + 1 and not marked failed; any other outcome is written to the
\* job store and the item is gone from the queue, not to be taken up again.
C27_ResumeHandledAsLoop ==
    [][(/\ Returns("resume") /\ ~ResumeFallback
        /\ last'.status # "login_required"
        /\ InQueue(queue, last'.job))
       => LET job == last'.job
              rc == RetryCountOf(queue, job)
          IN  IF last'.status = "failed" /\ last'.error # "bot" /\ rc < MaxRetries
              THEN /\ jobStatus'[job] # "failed"
                   /\ \E i \in 1..Len(queue') : queue'[i] = QueueEntry(job, rc + 1)
              ELSE /\ jobStatus'[job] = last'.status
                   /\ ~InQueue(queue', job)
                   /\ loop'.job # job]_vars

-----------------------------------------------------------------------------
(* The interrupted item and the resume.                                    *)

\* The loop has stopped and a login is pending for the job at the head of
\* the queue.
FrozenAtHead ==
    /\ loginState.required
    /\ loop.pc = "idle"
    /\ queue # <<>>
    /\ Head(queue).job = loginState.jobId

\* C28: when the loop's attempt returns login_required the item goes back to
\* the front of the queue; while the login is pending, requests that enqueue
\* leave it at the head; and the attempt that login-complete starts, like the
\* next item the loop takes, is for the interrupted job, ahead of the items
\* enqueued before or during the freeze.
C28_InterruptedJobNext ==
    [][/\ (Returns("loop") /\ last'.status = "login_required")
          => /\ queue' # <<>>
             /\ Head(queue') = QueueEntry(last'.job, last'.retryCount)
       /\ (FrozenAtHead /\ queue' # <<>> /\ loop'.pc = "idle")
          => Head(queue') = Head(queue)
       /\ (FrozenAtHead /\ loop'.pc # "idle")
          => loop'.job = loginState.jobId
       /\ (FrozenAtHead /\ att["resume"].pc = "idle" /\ att'["resume"].pc # "idle")
          => att'["resume"].job = loginState.jobId]_vars

\* The resume of j1 is under way while j1 heads the queue before another
\* item.
C28_Witness ==
    /\ att["resume"].pc # "idle"
    /\ att["resume"].job = "j1"
    /\ Len(queue) >= 2
    /\ Head(queue).job = "j1"
    /\ last.caller = "loop"
    /\ last.status = "login_required"

-----------------------------------------------------------------------------
(* The retry budget.                                                       *)

\* The entries for job that this step has put in the queue.
NewEntries(job) ==
    {i \in 1..Len(queue') :
        /\ queue'[i].job = job
        /\ \A k \in 1..Len(queue) : queue[k] # queue'[i]}

\* C29: retries are capped at 2. Every queue entry, and the item the loop is
\* working on, has a retryCount in 0..2. A login interrupt puts the item back
\* with the retryCount it had; any other return of the loop's attempt puts
\* the job back only with retryCount + 1 and only below 2, and at retryCount
\* 2 a Failed result marks the job failed: the loop attempts one enqueued job
\* at most three times, login interrupts not counted.
C29_RetriesCapped ==
    /\ [](/\ \A i \in 1..Len(queue) : queue[i].retryCount \in 0..MaxRetries
          /\ loop.retryCount \in 0..MaxRetries)
    /\ [][Returns("loop")
          => LET job == last'.job
                 rc == last'.retryCount
             IN  /\ last'.status = "login_required"
                      => \A i \in NewEntries(job) : queue'[i].retryCount = rc
                 /\ last'.status # "login_required"
                      => /\ \A i \in NewEntries(job) :
                                queue'[i].retryCount = rc + 1 /\ rc < MaxRetries
                         /\ Cardinality(NewEntries(job)) <= 1
                 /\ (last'.status = "failed" /\ rc = MaxRetries)
                      => jobStatus'[job] = "failed"]_vars

\* A job waits in the queue for its third and last attempt.
C29_Witness ==
    /\ queue # <<>>
    /\ queue[Len(queue)].retryCount = MaxRetries
    /\ last.caller = "loop"
    /\ last.status = "failed"
    /\ last.retryCount = MaxRetries - 1
    /\ jobStatus[last.job] # "failed"

-----------------------------------------------------------------------------
(* Rate-limit denials seen by the queue loop.                              *)

\* The reasons canApply gives for a denial.
DenialReasons == {"daily", "hourly", "delay"}

\* The loop's attempt returns a result that is only a rate-limit denial.
LoopDenied ==
    /\ Returns("loop")
    /\ last'.status = "failed"
    /\ last'.error \in DenialReasons

\* C30: a rate-limit denial is recoverable. When the loop's attempt is refused
\* by canApply, the job is not marked failed and any entry put back for it
\* keeps the retryCount it had.
C30_DenialRecoverable ==
    [][LoopDenied
       => /\ jobStatus'[last'.job] # "failed"
          /\ \A i \in NewEntries(last'.job) :
                queue'[i].retryCount = last'.retryCount]_vars

-----------------------------------------------------------------------------
(* The sleep between two queue items.                                      *)

\* The loop starts a spacing sleep in this step.
SleepStarts == loop'.pc = "delay" /\ loop' # loop

\* C31: the sleep between two queue items lies inside the platform's
\* [delayMin, delayMax] window, and it is started only with items left in the
\* queue, not paused and not waiting for a login.
C31_SleepInWindow ==
    [][SleepStarts
       => LET config == getRateLimitConfig(jobPlatform'[loop'.job])
              d == loop'.wakeAt - now'
          IN  /\ config.delayMin <= config.delayMax
                   => config.delayMin <= d /\ d <= config.delayMax
              /\ queue' # <<>>
              /\ ~isPaused'
              /\ ~loginState'.required]_vars

-----------------------------------------------------------------------------
(* The attempt resumed after a login, and the item the interrupt put back. *)

\* The attempt resumed on the page kept for the login returns a result that
\* settles its job.
ResumeSettles ==
    /\ ~ResumeFallback
    /\ Returns("resume")
    /\ last'.status \in {"applied", "needs_input", "failed"}

\* C32: no double submission around a login interrupt. When the resumed
\* attempt for a job has returned Submitted, NeedsInput or Failed, the copy
\* of the job that the interrupt put back is gone from the queue, the loop is
\* not applying to the job again, and the job's status is the one the resumed
\* attempt wrote.
C32_NoSecondAttemptAfterResume ==
    [][ResumeSettles
       => /\ ~InQueue(queue', last'.job)
          /\ ~(loop'.pc = "applying" /\ loop'.job = last'.job)
          /\ jobStatus'[last'.job] = last'.status]_vars

-----------------------------------------------------------------------------
(* The platform checked and the platform recorded.                         *)

\* C33: within one attempt of applyToJob, the platform whose counters
\* recordApplication moves is the platform canApply was asked about when the
\* attempt started, also for a job whose platform is detected from its URL
\* during the attempt.
C33_RecordedPlatformIsChecked ==
    [][\A c \in Callers :
          (Submits(c) /\ att[c].asked # "none")
          => \A p \in Platforms : Counted(p) => p = att[c].asked]_vars

-----------------------------------------------------------------------------
(* The queue loop left to itself: one batch, no further request, every     *)
(* awaited call and every sleep comes to an end.                           *)

\* The batch the loop is started on.
LoopBatch == <<"j1", "j2">>

\* The service as constructed.
LoopBefore ==
    [HourlyBefore EXCEPT !.usage = [p \in Platforms |-> NoUsage],
                         !.browser = FALSE, !.context = FALSE]

\* POST /jobs/apply-batch with the two jobs has run up to its first await.
LoopInit ==
    LET start(f) ==
            /\ usage = f.usage
            /\ queue = f.queue
            /\ isProcessing = f.isProcessing
            /\ isPaused = f.isPaused
            /\ currentJob = f.currentJob
            /\ activePage = f.activePage
            /\ openPages = f.openPages
            /\ loginState = f.loginState
            /\ browser = f.browser
            /\ context = f.context
            /\ jobStatus = f.jobStatus
            /\ jobPlatform = f.jobPlatform
            /\ requiredInputs = f.requiredInputs
            /\ att = f.att
            /\ loop = f.loop
            /\ cancel = f.cancel
            /\ last = f.last
    IN  /\ now = StartTime
        /\ env \in EnvChoices
        /\ ops = 0
        /\ faults = 0
        /\ \E long \in BOOLEAN : start(applyBatch(LoopBefore, LoopBatch, long, StartTime))

\* The spacing sleep of processQueue runs out: the clock reaches wakeAt and
\* the loop goes on.
Slept(long) ==
    /\ loop.pc = "delay"
    /\ now' = IF now >= loop.wakeAt THEN now ELSE loop.wakeAt
    /\ Commit(loopIterate(Cur, long, now'))
    /\ UNCHANGED <<env, ops, faults>>

\* The outcomes of a submission routine that asks for no login.
OutcomesNoLogin == Outcomes \ {"login_required"}

LoopNext ==
    \/ \E ok \in BOOLEAN, long \in BOOLEAN : Launched("loop", ok, long)
    \/ \E ok \in BOOLEAN, long \in BOOLEAN : PageCreated("loop", ok, long)
    \/ \E out \in {"ok", "bot", "throw"}, long \in BOOLEAN : Navigated("loop", out, long)
    \/ \E ok \in BOOLEAN, long \in BOOLEAN : BotShot("loop", ok, long)
    \/ \E out \in OutcomesNoLogin :
           \E fields \in Fields(out), long \in BOOLEAN : Handled("loop", out, fields, long)
    \/ \E ok \in BOOLEAN, long \in BOOLEAN : Final("loop", ok, long)
    \/ \E ok \in BOOLEAN, long \in BOOLEAN : ErrClosed("loop", ok, long)
    \/ \E long \in BOOLEAN : Slept(long)

\* Every awaited call returns or throws, and every sleep ends.
LoopSpec == LoopInit /\ [][LoopNext]_vars /\ WF_vars(LoopNext)

\* The loop has emptied the queue and is idle.
LoopDone == queue = <<>> /\ ~isProcessing /\ loop.pc = "idle"

\* C34: the queue loop terminates. With no further request and every
\* routine returning without asking for a login, the loop started on the
\* batch ends with the queue empty and isProcessing false, and no item is
\* taken up with a retryCount above 2.
C34_LoopTerminates ==
    /\ <>[]LoopDone
    /\ [](loop.retryCount \in 0..MaxRetries)

-----------------------------------------------------------------------------
(* Wake-ups of the queue loop.                                             *)

\* Every request of the control surface has been handled to its end.
RequestsHandled ==
    /\ att["direct"].pc = "idle"
    /\ att["resume"].pc = "idle"
    /\ cancel.pc = "idle"

\* C35: no lost wake-up. Once the requests have been handled, a queue that
\* is not empty, with processing not paused and no login pending, has a loop
\* running on it.
C35_NoLostWakeUp ==
    (RequestsHandled /\ queue # <<>> /\ ~isPaused /\ ~loginState.required)
    => (isProcessing /\ loop.pc # "idle")

-----------------------------------------------------------------------------
(* Attempts started while processing is paused.                            *)

\* Activation c starts an attempt in this step.
AttemptStarts(c) ==
    /\ att[c].pc = "idle"
    /\ att'[c].pc # "idle" \/ Returns(c)

\* C36: while paused, no new attempt is started, neither by the queue loop
\* nor by the resumption after a login.
C36_NoAttemptWhilePaused ==
    [][(isPaused /\ isPaused')
       => ~AttemptStarts("loop") /\ ~AttemptStarts("resume")]_vars

-----------------------------------------------------------------------------
(* The current job that the status reports.                                *)

\* C37: currentJob is set only while an attempt is in flight or a login is
\* pending: with no activation inside an attempt, no cancel under way and no
\* login pending, getQueueStatus and getAutomationStatus report no current
\* job.
C37_CurrentJobOnlyInFlight ==
    (Quiescent /\ ~loginState.required) => currentJob = NoJob

-----------------------------------------------------------------------------
(* The wait that a denial announces.                                       *)

\* canApply asked again after the announced wait, nothing recorded meanwhile.
AfterWait(p) ==
    LET r == canApply(usage, p, now)
    IN  canApply(r.usage, p, now + r.waitTime)

\* C38: whenever canApply denies, the waitTime it returns is positive, and
\* after waiting exactly that long with nothing recorded for the platform the
\* guard that denied no longer does.
C38_WaitSuffices ==
    \A p \in Platforms :
        LET r == canApply(usage, p, now)
        IN  ~r.allowed
            => /\ r.waitTime > 0
               /\ AfterWait(p).allowed \/ AfterWait(p).reason # r.reason

\* The hourly cap denies part-way through the window, and the wait runs to
\* the window's end.
C38_Witness ==
    \E p \in Platforms :
        LET r == canApply(usage, p, now)
        IN  /\ usage[p].has
            /\ ~r.allowed
            /\ r.reason = "hourly"
            /\ r.waitTime < HourMs
            /\ now + r.waitTime = usage[p].hourlyResetTime

-----------------------------------------------------------------------------
(* The rate limiter across the end of an hourly window.                    *)

SlidingPlatform == "workable"

\* The clock advances at most this many times after SlidingStart.
MaxSlidingTicks == 6

\* The hourly window of the platform opened at StartTime. One short of the
\* hourly cap, the submissions so far were recorded DefaultDelayMin apart,
\* the last one DefaultDelayMin before SlidingStart, the window's last
\* instant but one.
SlidingStart == StartTime + HourMs - DefaultDelayMin
SlidingPrior ==
    {SlidingStart - i * DefaultDelayMin : i \in 1..(DefaultHourlyLimit - 1)}

SlidingInit ==
    /\ now = SlidingStart
    /\ env \in [delayMin : DelayMinChoices, dailyLimit : {DefaultDailyLimit}]
    /\ usage = [p \in Platforms |->
                   IF p = SlidingPlatform
                   THEN [has |-> TRUE,
                         hourlyCount |-> Cardinality(SlidingPrior),
                         dailyCount |-> Cardinality(SlidingPrior),
                         lastApplicationTime |-> SlidingStart - DefaultDelayMin,
                         hourlyResetTime |-> StartTime + HourMs,
                         dailyResetTime |-> StartTime + DayMs]
                   ELSE NoUsage]
    /\ queue = <<>>
    /\ isProcessing = FALSE
    /\ isPaused = FALSE
    /\ currentJob = NoJob
    /\ activePage = 0
    /\ openPages = {}
    /\ loginState = NoLogin
    /\ browser = FALSE
    /\ context = FALSE
    /\ jobStatus = [j \in StoredJobs |-> "ready"]
    /\ jobPlatform = [j \in StoredJobs |-> InitialPlatform(j)]
    /\ requiredInputs = [j \in StoredJobs |-> <<>>]
    /\ att = [c \in Callers |-> IdleAtt]
    /\ loop = IdleLoop
    /\ cancel = IdleCancel
    /\ last = NoLast
    /\ ops = 0
    /\ faults = 0

\* canApply allows and the submission is recorded.
SlidingSubmit(p) ==
    /\ canApply(usage, p, now).allowed
    /\ usage' = recordApplication(canApply(usage, p, now).usage, p, now)
    /\ UNCHANGED <<now, env, queue, isProcessing, isPaused, currentJob,
                   activePage, openPages, loginState, browser, context, jobStatus,
                   jobPlatform, requiredInputs, att, loop, cancel, last, ops, faults>>

SlidingTick ==
    /\ now + DefaultDelayMin <= SlidingStart + MaxSlidingTicks * DefaultDelayMin
    /\ now' = now + DefaultDelayMin
    /\ UNCHANGED <<env, usage, queue, isProcessing, isPaused, currentJob,
                   activePage, openPages, loginState, browser, context, jobStatus,
                   jobPlatform, requiredInputs, att, loop, cancel, last, ops, faults>>

SlidingNext ==
    \/ SlidingTick
    \/ RateCanApply(SlidingPlatform)
    \/ SlidingSubmit(SlidingPlatform)

SlidingSpec == SlidingInit /\ [][SlidingNext]_vars

\* The submissions recorded in the hour that ends now: those of SlidingPrior
\* that are less than an hour old, and those recorded since SlidingStart,
\* which the daily counter (its window runs until StartTime + DayMs) counts
\* on top of SlidingPrior and which are all less than an hour old.
InLastHour ==
    Cardinality({t \in SlidingPrior : now - t < HourMs})
    + (usage[SlidingPlatform].dailyCount - Cardinality(SlidingPrior))

\* C39: the hourly cap holds over any span of one hour: at most hourlyLimit
\* submissions of the platform are recorded in the hour that ends now, also
\* when that hour straddles the end of a counting window.
C39_HourlyCapSliding ==
    InLastHour <= getRateLimitConfig(SlidingPlatform).hourlyLimit

====
